---- MODULE Spec2Model ----
(***************************************************************************)
(* Model of storage.py: the PostgreSQL ratings loader (PostgresDataLoader)  *)
(* and the MongoDB model store writer (MongoDBModelWriter).                 *)
(*                                                                          *)
(* SpecLoader drives the loader against a ratings table that an external    *)
(* ingestion process appends to; SpecWriter drives write(model, version)    *)
(* insert by insert against the three collections of the model store.       *)
(***************************************************************************)
EXTENDS Integers, Sequences, FiniteSets

\* ------------------------------------------------------------------ bounds
MaxRatings == 3
MaxTime == 3
MaxWrites == 2
MaxFeatures == 1

\* ------------------------------------------------------ input value domains
Users == {1, 2}
Products == {7}
RatingValues == {5}
Timestamps == 1..MaxTime
\* a row of ratings(userid, productid, rating, timestamp)
RowValues == Users \X Products \X RatingValues \X Timestamps
\* arguments of fetchafter: below, between and above every stored timestamp
TimestampArgs == 0..MaxTime
\* inputs of write(model, version)
Versions == {"v1", "v2"}
Ranks == {1, 2}

VARIABLES
    ratings,    \* the ratings table, rows in heap (insertion) order
    loader,     \* "unbuilt" | "live" | "gone": lifetime of the PostgresDataLoader
    connOpen,   \* the psycopg2 connection made by _build_connection is open
    lastOp,     \* the loader method that ran last ("none" before any)
    lastArg,    \* its timestamp argument (fetchafter), else 0
    outcome,    \* what it returned or raised
    models,         \* collection models of the model store, in insertion order
    userFactors,    \* collection userFactors
    productFactors, \* collection productFactors
    pc,         \* where the running write call stands: "idle" | "users" | "products"
    u,          \* write's local u: the collected user features
    p,          \* write's local p: the collected product features
    i,          \* position of the running for loop in u or p
    nextId,     \* the next _id the driver gives an inserted document
    now,        \* the clock datetime.utcnow() reads
    trainedRank,    \* the rank the trainer is configured with (0: nothing trained
                    \* yet): the snapshots of one run all have this rank
    calls       \* history: every write call, its arguments, insert attempts, status

loaderVars == <<ratings, loader, connOpen, lastOp, lastArg, outcome>>
writerVars == <<models, userFactors, productFactors, pc, u, p, i, nextId, now,
               trainedRank, calls>>
vars == <<ratings, loader, connOpen, lastOp, lastArg, outcome,
          models, userFactors, productFactors, pc, u, p, i, nextId, now,
          trainedRank, calls>>

\* --------------------------------------------------------- values returned
NoOutcome == [kind |-> "none"]
Returned(rows) == [kind |-> "rows", rows |-> rows]
ReturnedValue(v) == [kind |-> "value", value |-> v]
Raised(e) == [kind |-> "raised", error |-> e]

\* ------------------------------------------------------------ the database
\* A sequential scan of the table: without ORDER BY the rows come in heap
\* order starting at any row and wrapping around.
Scan(table, start) ==
    [k \in 1..Len(table) |-> table[((start + k - 2) % Len(table)) + 1]]

ScanStarts(table) == IF table = <<>> THEN {1} ELSE 1..Len(table)

\* a faulty variant of TimestampAfter: >= for >
TimestampAfterOrEqual(row, timestamp) == row[4] >= timestamp

\* WHERE (timestamp > %s)
TimestampAfter(row, timestamp) == row[4] > timestamp

RECURSIVE Where(_, _)
Where(rows, timestamp) ==
    IF rows = <<>> THEN <<>>
    ELSE (IF TimestampAfter(Head(rows), timestamp) THEN <<Head(rows)>> ELSE <<>>)
         \o Where(Tail(rows), timestamp)

\* a faulty variant of Precedes: ascending for descending
PrecedesAscending(a, b) == a[4] <= b[4]

\* ORDER BY timestamp DESC: row a may come before row b
Precedes(a, b) == a[4] >= b[4]

RECURSIVE InsertSorted(_, _)
InsertSorted(row, sorted) ==
    IF sorted = <<>> THEN <<row>>
    ELSE IF Precedes(row, Head(sorted)) THEN <<row>> \o sorted
    ELSE <<Head(sorted)>> \o InsertSorted(row, Tail(sorted))

RECURSIVE OrderBy(_)
OrderBy(rows) ==
    IF rows = <<>> THEN <<>> ELSE InsertSorted(Head(rows), OrderBy(Tail(rows)))

\* LIMIT 1
Limit1(rows) == IF rows = <<>> THEN <<>> ELSE <<Head(rows)>>

\* SELECT *: every column of the row
SelectStar(rows) == rows

\* SELECT timestamp: one column
SelectTimestamp(rows) == [k \in 1..Len(rows) |-> <<rows[k][4]>>]

\* cursor.fetchall(): all rows of the result set
CursorFetchall(resultSet) == resultSet

\* cursor.fetchone(): the next row, or None when the result set is exhausted
CursorFetchone(resultSet) == IF resultSet = <<>> THEN "None" ELSE Head(resultSet)

\* ------------------------------------------------------------------- loader
LoaderInit ==
    /\ ratings = <<>>
    /\ loader = "unbuilt"
    /\ connOpen = FALSE
    /\ lastOp = "none"
    /\ lastArg = 0
    /\ outcome = NoOutcome

\* An external ingestion process appends a rating.
InsertRating ==
    /\ Len(ratings) < MaxRatings
    /\ \E row \in RowValues : ratings' = Append(ratings, row)
    /\ lastOp' = "insert"
    /\ lastArg' = 0
    /\ outcome' = NoOutcome
    /\ UNCHANGED <<loader, connOpen, writerVars>>

\* PostgresDataLoader.__init__: connect, then open a cursor.
Construct ==
    /\ loader = "unbuilt"
    /\ lastOp' = "__init__"
    /\ lastArg' = 0
    /\ \/ \* psycopg2.connect raises: no connection was made
          /\ loader' = "gone"
          /\ connOpen' = FALSE
          /\ outcome' = Raised("psycopg2.Error")
       \/ \* connected, connection.cursor() raises: the constructor exits
          \* with the connection made; nothing in the class closes it, the
          \* runtime may or may not have finalised it
          /\ loader' = "gone"
          /\ \E finalised \in BOOLEAN : connOpen' = ~finalised
          /\ outcome' = Raised("psycopg2.Error")
       \/ /\ loader' = "live"
          /\ connOpen' = TRUE
          /\ outcome' = NoOutcome
    /\ UNCHANGED <<ratings, writerVars>>

\* PostgresDataLoader.fetchall
Fetchall ==
    /\ loader = "live"
    /\ lastOp' = "fetchall"
    /\ lastArg' = 0
    /\ \/ outcome' = Raised("psycopg2.Error")
       \/ \E start \in ScanStarts(ratings) :
            outcome' = Returned(CursorFetchall(SelectStar(Scan(ratings, start))))
    /\ UNCHANGED <<ratings, loader, connOpen, writerVars>>

\* PostgresDataLoader.latest_timestamp
LatestTimestamp ==
    /\ loader = "live"
    /\ lastOp' = "latest_timestamp"
    /\ lastArg' = 0
    /\ \/ outcome' = Raised("psycopg2.Error")
       \/ \E start \in ScanStarts(ratings) :
            LET row == CursorFetchone(
                           Limit1(SelectTimestamp(OrderBy(Scan(ratings, start)))))
            IN  \* row[0]: subscripting None raises TypeError
                outcome' = IF row = "None" THEN Raised("TypeError")
                           ELSE ReturnedValue(row[1])
    /\ UNCHANGED <<ratings, loader, connOpen, writerVars>>

\* PostgresDataLoader.fetchafter
Fetchafter ==
    /\ loader = "live"
    /\ lastOp' = "fetchafter"
    /\ \E timestamp \in TimestampArgs :
        /\ lastArg' = timestamp
        /\ \/ outcome' = Raised("psycopg2.Error")
           \/ \E start \in ScanStarts(ratings) :
                outcome' = Returned(CursorFetchall(
                               SelectStar(Where(Scan(ratings, start), timestamp))))
    /\ UNCHANGED <<ratings, loader, connOpen, writerVars>>

\* The loader is dropped.  The class defines no close, __del__, __enter__ or
\* __exit__: nothing in it closes the connection, so whether the connection
\* is closed is left to the runtime's finalisation of the driver object.
Dispose ==
    /\ loader = "live"
    /\ loader' = "gone"
    /\ lastOp' = "dispose"
    /\ lastArg' = 0
    /\ outcome' = NoOutcome
    /\ \E finalised \in BOOLEAN : connOpen' = (connOpen /\ ~finalised)
    /\ UNCHANGED <<ratings, writerVars>>

LoaderNext ==
    \/ InsertRating
    \/ Construct
    \/ Fetchall
    \/ LatestTimestamp
    \/ Fetchafter
    \/ Dispose


\* ------------------------------------------------------------------- writer
\* array('d') of a feature RDD entry: n doubles at positions 0..n-1
Array(n, base) == [n |-> n, at |-> [k \in 0..(n - 1) |-> base + k]]

\* a MatrixFactorizationModel: rank, and per side a list of (id, array)
Snapshot(rank, nu, np) ==
    [rank |-> rank,
     userFeatures |-> [j \in 1..nu |-> <<j, Array(rank, 10 * j)>>],
     productFeatures |-> [j \in 1..np |-> <<j, Array(rank, 50 + 10 * j)>>]]

\* the snapshots a trainer of the given rank hands to write
Snapshots(rank) ==
    {Snapshot(rank, nu, np) : nu \in 0..MaxFeatures, np \in 0..MaxFeatures}

\* model.userFeatures().collect(), model.productFeatures().collect()
Collect(rdd) == rdd

\* a faulty variant of ListOf: the values in reverse order
ListOfReversed(array) == [k \in 1..array.n |-> array.at[array.n - k]]

\* list(feature[1]): the array's values as a list, in order
ListOf(array) == [k \in 1..array.n |-> array.at[k - 1]]

\* a faulty variant of MetaDoc: the id ignores the version argument
MetaDocFixedId(model, version, created) ==
    [id |-> "v1", rank |-> model.rank, created |-> created]

\* data = {'id': version, 'rank': model.rank, 'created': utcnow()}
MetaDoc(model, version, created) ==
    [id |-> version, rank |-> model.rank, created |-> created]

\* a faulty variant of FactorDoc: the model_id ignores the version argument
FactorDocFixedModelId(version, feature) ==
    [model_id |-> "v1", id |-> feature[1], features |-> ListOf(feature[2])]

\* {'model_id': version, 'id': feature[0], 'features': list(feature[1])}
FactorDoc(version, feature) ==
    [model_id |-> version, id |-> feature[1], features |-> ListOf(feature[2])]

\* what insert_one stores: the document, and the _id the driver adds to it
Stored(doc, id) == [doc |-> doc, oid |-> id]

\* collection.insert_one(doc), acknowledged
InsertOne(collection, doc, id) == Append(collection, Stored(doc, id))

\* history entry of one insert_one call
Attempt(coll, doc, id, ok) == [coll |-> coll, doc |-> doc, oid |-> id, ok |-> ok]

Logged(attempt, status) ==
    [calls EXCEPT ![Len(calls)].attempts = Append(@, attempt),
                  ![Len(calls)].status = status]

WriterInit ==
    /\ models = <<>>
    /\ userFactors = <<>>
    /\ productFactors = <<>>
    /\ pc = "idle"
    /\ u = <<>>
    /\ p = <<>>
    /\ i = 0
    /\ nextId = 1
    /\ now = 1
    /\ trainedRank = 0
    /\ calls = <<>>

NewCall(model, version, attempt, status) ==
    Append(calls, [version |-> version, model |-> model,
                   attempts |-> <<attempt>>, status |-> status])

\* a faulty variant of MetaFails: the exception is swallowed and write goes on
MetaFailsSuppressed(model, version) ==
    /\ calls' = NewCall(model, version,
                        Attempt("models", MetaDoc(model, version, now), nextId, FALSE),
                        "running")
    /\ u' = Collect(model.userFeatures)
    /\ i' = 1
    /\ pc' = "users"
    /\ UNCHANGED <<models, p>>

\* self._db.models.insert_one(data) raises: write exits with the exception
MetaFails(model, version) ==
    /\ calls' = NewCall(model, version,
                        Attempt("models", MetaDoc(model, version, now), nextId, FALSE),
                        "raised")
    /\ pc' = "idle"
    /\ UNCHANGED <<models, u, p, i>>

\* self._db.models.insert_one(data) succeeds; u = userFeatures().collect()
MetaInserted(model, version) ==
    /\ models' = InsertOne(models, MetaDoc(model, version, now), nextId)
    /\ calls' = NewCall(model, version,
                        Attempt("models", MetaDoc(model, version, now), nextId, TRUE),
                        "running")
    /\ u' = Collect(model.userFeatures)
    /\ i' = 1
    /\ pc' = "users"
    /\ UNCHANGED p

\* write(model, version) up to the user loop
WriteMeta ==
    /\ pc = "idle"
    /\ Len(calls) < MaxWrites
    /\ \E rank \in (IF trainedRank = 0 THEN Ranks ELSE {trainedRank}) :
          /\ trainedRank' = rank
          /\ \E model \in Snapshots(rank), version \in Versions :
                \/ MetaInserted(model, version)
                \/ MetaFails(model, version)
    /\ nextId' = nextId + 1
    /\ now' = now + 1
    /\ UNCHANGED <<userFactors, productFactors, loaderVars>>

Running == calls[Len(calls)]

\* a faulty variant of UserFactorFails: the exception is swallowed, the loop goes on
UserFactorFailsSuppressed ==
    /\ calls' = Logged(Attempt("userFactors", FactorDoc(Running.version, u[i]),
                               nextId, FALSE), "running")
    /\ i' = i + 1
    /\ UNCHANGED <<userFactors, pc>>

\* self._db.userFactors.insert_one(...) raises
UserFactorFails ==
    /\ calls' = Logged(Attempt("userFactors", FactorDoc(Running.version, u[i]),
                               nextId, FALSE), "raised")
    /\ pc' = "idle"
    /\ UNCHANGED <<userFactors, i>>

UserFactorInserted ==
    /\ userFactors' = InsertOne(userFactors, FactorDoc(Running.version, u[i]), nextId)
    /\ calls' = Logged(Attempt("userFactors", FactorDoc(Running.version, u[i]),
                               nextId, TRUE), "running")
    /\ i' = i + 1
    /\ UNCHANGED pc

\* one iteration of: for feature in u
InsertUserFactor ==
    /\ pc = "users"
    /\ i <= Len(u)
    /\ \/ UserFactorInserted
       \/ UserFactorFails
    /\ nextId' = nextId + 1
    /\ UNCHANGED <<models, productFactors, u, p, now, trainedRank, loaderVars>>

\* the user loop is exhausted: p = model.productFeatures().collect()
CollectProducts ==
    /\ pc = "users"
    /\ i > Len(u)
    /\ p' = Collect(Running.model.productFeatures)
    /\ i' = 1
    /\ pc' = "products"
    /\ UNCHANGED <<models, userFactors, productFactors, u, nextId, now, trainedRank,
                   calls, loaderVars>>

\* self._db.productFactors.insert_one(...) raises
ProductFactorFails ==
    /\ calls' = Logged(Attempt("productFactors", FactorDoc(Running.version, p[i]),
                               nextId, FALSE), "raised")
    /\ pc' = "idle"
    /\ UNCHANGED <<productFactors, i>>

ProductFactorInserted ==
    /\ productFactors' = InsertOne(productFactors, FactorDoc(Running.version, p[i]), nextId)
    /\ calls' = Logged(Attempt("productFactors", FactorDoc(Running.version, p[i]),
                               nextId, TRUE), "running")
    /\ i' = i + 1
    /\ UNCHANGED pc

\* one iteration of: for feature in p
InsertProductFactor ==
    /\ pc = "products"
    /\ i <= Len(p)
    /\ \/ ProductFactorInserted
       \/ ProductFactorFails
    /\ nextId' = nextId + 1
    /\ UNCHANGED <<models, userFactors, u, p, now, trainedRank, loaderVars>>

\* the product loop is exhausted: write returns
WriteReturn ==
    /\ pc = "products"
    /\ i > Len(p)
    /\ calls' = [calls EXCEPT ![Len(calls)].status = "returned"]
    /\ pc' = "idle"
    /\ UNCHANGED <<models, userFactors, productFactors, u, p, i, nextId, now,
                   trainedRank, loaderVars>>

WriterNext ==
    \/ WriteMeta
    \/ InsertUserFactor
    \/ CollectProducts
    \/ InsertProductFactor
    \/ WriteReturn

Init == LoaderInit /\ WriterInit

SpecLoader == Init /\ [][LoaderNext]_vars

SpecWriter == Init /\ [][WriterNext]_vars

\* ------------------------------------------------------- claims: the loader
Range(seq) == {seq[k] : k \in DOMAIN seq}

Count(seq, x) == Cardinality({k \in DOMAIN seq : seq[k] = x})

\* what fetchall() returns on the present table, for one scan start
FetchallRows(start) == CursorFetchall(SelectStar(Scan(ratings, start)))

\* C1: after fetchafter(T) returned, its rows are exactly the rows of
\* fetchall() on the same table whose timestamp is strictly greater than T,
\* each as many times as fetchall() has it; and when T is at least every
\* stored timestamp, fetchafter(T) returned the empty sequence and raised
\* nothing but a failure of the query itself.
FetchafterIsFetchallAfter ==
    lastOp = "fetchafter" =>
        /\ outcome.kind = "rows" =>
             \A start \in ScanStarts(ratings) :
               \A row \in Range(outcome.rows) \cup Range(FetchallRows(start)) :
                  Count(outcome.rows, row) =
                     IF row[4] > lastArg THEN Count(FetchallRows(start), row) ELSE 0
        /\ (\A k \in DOMAIN ratings : ratings[k][4] <= lastArg) =>
             outcome \in {Returned(<<>>), Raised("psycopg2.Error")}

\* fetchafter kept two equal rows and left an older one out
FetchafterWitness ==
    /\ lastOp = "fetchafter"
    /\ outcome.kind = "rows"
    /\ Len(ratings) = 3
    /\ Len(outcome.rows) = 2
    /\ outcome.rows[1] = outcome.rows[2]
    /\ \E k \in DOMAIN ratings : ratings[k][4] = lastArg

\* C2: latest_timestamp() on an empty ratings table fails with EmptyStore
\* (the query itself having run).
LatestOnEmptyRaisesEmptyStore ==
    (/\ lastOp = "latest_timestamp"
     /\ ratings = <<>>
     /\ outcome # Raised("psycopg2.Error"))
        => outcome = Raised("EmptyStore")

\* t is the greatest timestamp of the rows
IsMaxTimestamp(t, rows) ==
    /\ \E k \in DOMAIN rows : rows[k][4] = t
    /\ \A k \in DOMAIN rows : rows[k][4] <= t

\* the newest row of the table carries a timestamp above all the others
NewestIsLargest ==
    /\ Len(ratings) >= 2
    /\ \A k \in 1..(Len(ratings) - 1) : ratings[k][4] < ratings[Len(ratings)][4]

\* C3: on a non-empty table latest_timestamp() raises nothing but a failure
\* of the query, and returns the maximum timestamp of the rows fetchall()
\* returns; after a rating with a timestamp above all stored ones was
\* inserted, it returns that rating's timestamp.
LatestIsMaxTimestamp ==
    (lastOp = "latest_timestamp" /\ ratings # <<>>) =>
        /\ outcome.kind = "raised" => outcome.error = "psycopg2.Error"
        /\ outcome.kind = "value" =>
             /\ \A start \in ScanStarts(ratings) :
                   IsMaxTimestamp(outcome.value, FetchallRows(start))
             /\ NewestIsLargest => outcome.value = ratings[Len(ratings)][4]

\* latest_timestamp answered after a rating newer than all others came in,
\* the older rows not being in timestamp order
LatestWitness ==
    /\ lastOp = "latest_timestamp"
    /\ outcome.kind = "value"
    /\ Len(ratings) = 3
    /\ NewestIsLargest
    /\ ratings[1][4] > ratings[2][4]
    /\ outcome.value = ratings[3][4]

\* C4: every element fetchall() and fetchafter() return has exactly the
\* three components (userid, productid, rating).
RatingsHaveThreeComponents ==
    (lastOp \in {"fetchall", "fetchafter"} /\ outcome.kind = "rows") =>
        \A k \in DOMAIN outcome.rows : Len(outcome.rows[k]) = 3

\* C8: once the loader is gone (disposed, or its constructor failed), its
\* connection is closed.
ConnectionClosedWhenGone == loader = "gone" => ~connOpen

\* ------------------------------------------------------- claims: the writer
\* find({'id': version}) on models
FindModel(version) == SelectSeq(models, LAMBDA r : r.doc.id = version)

\* find({'model_id': version}) on a factor collection
FindFactors(collection, version) ==
    SelectSeq(collection, LAMBDA r : r.doc.model_id = version)

Oids(records) == {records[k].oid : k \in DOMAIN records}

\* the _ids of the documents a call inserted
InsertedIds(call) ==
    {call.attempts[k].oid : k \in {j \in DOMAIN call.attempts : call.attempts[j].ok}}

InsertedInto(call, coll) ==
    {call.attempts[k].oid :
        k \in {j \in DOMAIN call.attempts :
                  call.attempts[j].ok /\ call.attempts[j].coll = coll}}

CollectionNamed(coll) ==
    CASE coll = "models" -> models
      [] coll = "userFactors" -> userFactors
      [] coll = "productFactors" -> productFactors

\* no other call left a record under this call's version
OnlyWriterOfVersion(n) ==
    \A m \in DOMAIN calls \ {n} :
        calls[m].version = calls[n].version => InsertedIds(calls[m]) = {}

\* the records of the version are one per feature entry, with its id and
\* its vector: same length, same values, same order
Reproduces(records, features) ==
    /\ Len(records) = Len(features)
    /\ \A k \in DOMAIN features :
         \E j \in DOMAIN records :
            /\ records[j].doc.id = features[k][1]
            /\ Len(records[j].doc.features) = features[k][2].n
            /\ \A x \in 1..features[k][2].n :
                  records[j].doc.features[x] = features[k][2].at[x - 1]

\* C5: after a write(model, version) that returned, no other call having
\* left records under the version, models has one record of the version,
\* with the model's rank; userFactors and productFactors queried by the
\* version give one record per feature entry with its id and vector; and
\* the call created 1 + |userFeatures| + |productFeatures| records.
WriteRoundTrip ==
    \A n \in DOMAIN calls :
        (calls[n].status = "returned" /\ OnlyWriterOfVersion(n)) =>
            LET model == calls[n].model
                version == calls[n].version
            IN  /\ Len(FindModel(version)) = 1
                /\ FindModel(version)[1].doc.rank = model.rank
                /\ Reproduces(FindFactors(userFactors, version), model.userFeatures)
                /\ Reproduces(FindFactors(productFactors, version),
                              model.productFeatures)
                /\ Cardinality(InsertedIds(calls[n])) =
                      1 + Len(model.userFeatures) + Len(model.productFeatures)
                /\ Len(FindModel(version)) + Len(FindFactors(userFactors, version))
                      + Len(FindFactors(productFactors, version))
                   = Cardinality(InsertedIds(calls[n]))

\* a snapshot of rank 2 with a user and a product was written and returned,
\* next to another version's records
RoundTripWitness ==
    \E n \in DOMAIN calls :
        /\ calls[n].status = "returned"
        /\ OnlyWriterOfVersion(n)
        /\ calls[n].model.rank = 2
        /\ Len(calls[n].model.userFeatures) = 1
        /\ Len(calls[n].model.productFeatures) = 1
        /\ \E m \in DOMAIN calls : m # n /\ Cardinality(InsertedIds(calls[m])) >= 2

PairwiseDifferentVersions ==
    \A m, n \in DOMAIN calls : m # n => calls[m].version # calls[n].version

\* C6: when the write calls so far had pairwise different versions,
\* querying userFactors or productFactors by the version of a call gives
\* exactly the records that call inserted there.
VersionsPartitionFactors ==
    PairwiseDifferentVersions =>
        \A n \in DOMAIN calls :
            /\ Oids(FindFactors(userFactors, calls[n].version))
                  = InsertedInto(calls[n], "userFactors")
            /\ Oids(FindFactors(productFactors, calls[n].version))
                  = InsertedInto(calls[n], "productFactors")

\* two calls with different versions, each with a user and a product record
PartitionWitness ==
    /\ Len(calls) = 2
    /\ PairwiseDifferentVersions
    /\ \A n \in DOMAIN calls :
          /\ InsertedInto(calls[n], "userFactors") # {}
          /\ InsertedInto(calls[n], "productFactors") # {}

\* C7: in every state, also inside a write call and after one that raised,
\* every record of userFactors and productFactors was inserted by a call
\* that also inserted a models record whose id is the record's model_id,
\* and that record is in models.
FactorsReferenceOwnMetadata ==
    \A r \in Range(userFactors) \cup Range(productFactors) :
        \E n \in DOMAIN calls :
            /\ r.oid \in InsertedIds(calls[n])
            /\ \E m \in Range(models) :
                  /\ m.doc.id = r.doc.model_id
                  /\ m.oid \in InsertedInto(calls[n], "models")

\* a write is under way with a feature record in, after a write that raised
\* and left a feature record behind
OwnMetadataWitness ==
    /\ pc # "idle"
    /\ Len(calls) = 2
    /\ calls[1].status = "raised"
    /\ InsertedInto(calls[1], "userFactors") # {}
    /\ InsertedInto(calls[2], "userFactors") # {}

\* C9: in every write call the first insert attempted is the one into
\* models and no later one is; no userFactors insert comes after a
\* productFactors insert; a feature insert is attempted only with the
\* metadata record in models, and none after the metadata insert failed.
InsertsInOrder ==
    \A n \in DOMAIN calls :
        LET a == calls[n].attempts
        IN  /\ a[1].coll = "models"
            /\ \A k \in 2..Len(a) :
                  /\ a[k].coll \in {"userFactors", "productFactors"}
                  /\ a[1].ok
                  /\ Stored(a[1].doc, a[1].oid) \in Range(models)
                  /\ \A j \in 2..(k - 1) :
                        ~(a[j].coll = "productFactors" /\ a[k].coll = "userFactors")
            /\ ~a[1].ok => Len(a) = 1

\* a call that inserted metadata, then a user record, then a product record,
\* after a call whose metadata insert failed
InOrderWitness ==
    /\ Len(calls) = 2
    /\ ~calls[1].attempts[1].ok
    /\ Len(calls[2].attempts) = 3
    /\ calls[2].attempts[2].coll = "userFactors"
    /\ calls[2].attempts[3].coll = "productFactors"

====
